---- MODULE Spec2Model ----
(***************************************************************************)
(* Model of the fact-checking pipeline orchestrator                        *)
(* (src/src/factchecker/pipeline/factcheck_pipeline.py), its stage         *)
(* instrumentation (logging_config.py), the source registry                *)
(* (core/sources_config.py) and the in-memory cache (storage/cache.py).    *)
(*                                                                         *)
(* Python values are modelled as follows.  None is the string NoneVal.     *)
(* Confidences in [0,1] are integers in units of 1/One, so that the mean  *)
(* of up to six whole-percent values is exact.  Objects that the code      *)
(* shares by reference (FactCheckResponse instances held by the cache and  *)
(* returned to callers) live in the sequence heap and are referred to by   *)
(* their index.  Exceptions are records.  A ClaimQuestion carries its      *)
(* answer in answer_text, the field the pipeline reads and the text        *)
(* extractor writes.                                                       *)
(***************************************************************************)
EXTENDS Integers, Sequences, FiniteSets, TLC

VARIABLES
    pc,            \* position of the current check_claim run
    run,           \* number of check_claim invocations started so far
    request,       \* the FactCheckRequest of the current run (mutated: request_id)
    suppliedId,    \* request_id as the caller supplied it (NoneVal if absent)
    request_id_var,\* ambient context variable of logging_config.py
    cache,         \* Cache._cache: key -> heap index of the stored value (0: no entry)
    heap,          \* FactCheckResponse objects, by reference
    presets,       \* number of Cache.set calls made by other clients of the cache
    extracted,     \* value returned by _extract_claims
    vidx,          \* _verify_claims: index of the claim being verified
    order,         \* _verify_claims: claim_source_order of the current claim
    sidx,          \* _verify_claims: position in claim_source_order
    claim_results, \* _verify_claims: results accumulated for the current claim
    all_results,   \* _verify_claims: all_search_results
    queried,       \* per claim index, the platforms whose search() was invoked, in order
    raised,        \* the exception travelling to check_claim's except clauses
    response,      \* heap index of the response check_claim returned (0: none yet)
    started,       \* stage names in the order their wrappers logged "started"
    completed,     \* stage names whose wrappers logged "completed"
    failedStage,   \* stage whose body raised in this run (NoneVal if none)
    calls,         \* collaborator calls of this run, in order
    cacheHit,      \* whether Cache Lookup returned a response in this run
    fault,         \* whether a collaborator call of this run has raised
    stored,        \* the claim text and the run of the last response put in the cache
    outcomes,      \* what the extraction collaborators did in this run
    unit,          \* a function of the program called on its own: arguments and result
    match_found,   \* _verify_claims: match_found of the current claim
    source_order,  \* _verify_claims: the default order computed at step 0
    tasks,         \* check_claim runs scheduled as concurrent tasks on one event loop
    mem            \* a Cache object used on its own, with the clock it reads

vars == <<pc, run, request, suppliedId, request_id_var, cache, heap, presets,
          extracted, vidx, order, sidx, claim_results, all_results, queried, raised,
          response, started, completed, failedStage, calls, cacheHit, fault, stored, outcomes, unit,
          match_found, source_order, tasks, mem>>

(***************************************************************************)
(* Bounds of the model                                                     *)
(***************************************************************************)
MaxRuns == 2
MaxPresets == 1
MaxResults == 1
MaxQuestions == 2
MaxOps == 4
MaxTime == 3

NoneVal == "None"

(***************************************************************************)
(* Source registry: core/sources_config.py                                 *)
(***************************************************************************)
EXTERNAL_SOURCES ==
    [ twitter |-> [category |-> "SOC", class_name |-> "TwitterSearcher",
                   display_name |-> "Twitter", sequence |-> 1],
      bluesky |-> [category |-> "SOC", class_name |-> "BlueSkySearcher",
                   display_name |-> "BlueSky", sequence |-> -2],
      news    |-> [category |-> "NWS", class_name |-> "NewsSearcher",
                   display_name |-> "News", sequence |-> -3],
      gov     |-> [category |-> "GOV", class_name |-> "GovernmentSearcher",
                   display_name |-> "Government", sequence |-> -4] ]

SourceKeys == DOMAIN EXTERNAL_SOURCES

\* classes exported by the package factchecker.searchers
SearcherClasses ==
    {"TwitterSearcher", "BlueSkySearcher", "NewsSearcher", "GovernmentSearcher"}

\* get_searcher: the searcher instantiated, or the SourceNotFoundError raised
get_searcher(platform) ==
    IF platform \notin SourceKeys
    THEN [kind |-> "raise",
          exc |-> [type |-> "SourceNotFoundError", message |-> "not found in registry"]]
    ELSE IF EXTERNAL_SOURCES[platform].class_name \notin SearcherClasses
         THEN [kind |-> "raise",
               exc |-> [type |-> "SourceNotFoundError", message |-> "failed to instantiate"]]
         ELSE [kind |-> "searcher", class_name |-> EXTERNAL_SOURCES[platform].class_name]

(***************************************************************************)
(* Generic sequence helpers                                                *)
(***************************************************************************)
RECURSIVE InsertSorted(_, _)
\* insertion of key k into a list sorted by sequence, after equal keys (stable)
InsertSorted(k, s) ==
    IF s = <<>> THEN <<k>>
    ELSE IF EXTERNAL_SOURCES[k].sequence < EXTERNAL_SOURCES[Head(s)].sequence
         THEN <<k>> \o s
         ELSE <<Head(s)>> \o InsertSorted(k, Tail(s))

\* the registry's keys in dict (insertion) order
RegistryKeyOrder == <<"twitter", "bluesky", "news", "gov">>

RECURSIVE SortBySequence(_)
SortBySequence(s) ==
    IF s = <<>> THEN <<>>
    ELSE InsertSorted(s[Len(s)], SortBySequence(SubSeq(s, 1, Len(s) - 1)))

\* _verify_claims step 0: sorted(EXTERNAL_SOURCES.keys(), key=sequence)
DefaultSourceOrder == SortBySequence(RegistryKeyOrder)

RemoveAt(s, i) == SubSeq(s, 1, i - 1) \o SubSeq(s, i + 1, Len(s))

\* index of the first TRUE in a sequence of booleans, 0 if none
FirstIndex(bs) ==
    IF \E i \in 1..Len(bs) : bs[i]
    THEN CHOOSE i \in 1..Len(bs) : bs[i] /\ \A j \in 1..(i - 1) : ~bs[j]
    ELSE 0

(***************************************************************************)
(* Data model: core/models.py and the values the collaborators hand over   *)
(***************************************************************************)
\* marker of a key that a metadata dict does not hold
Absent == "<absent>"

\* the letters A-Z and a-z, position by position
UpperLetters == "ABCDEFGHIJKLMNOPQRSTUVWXYZ"
LowerLetters == "abcdefghijklmnopqrstuvwxyz"

\* str.lower() on the upper-case letters
LowerLetter ==
    [c \in {SubSeq(UpperLetters, i, i) : i \in 1..Len(UpperLetters)} |->
        LET i == CHOOSE j \in 1..Len(UpperLetters) : SubSeq(UpperLetters, j, j) = c
        IN  SubSeq(LowerLetters, i, i)]

\* str.lower() on one character
LowerChar(c) == IF c \in DOMAIN LowerLetter THEN LowerLetter[c] ELSE c

RECURSIVE LowerFrom(_, _)
\* the characters of s from position i on, lowered
LowerFrom(s, i) ==
    IF i > Len(s) THEN "" ELSE LowerChar(SubSeq(s, i, i)) \o LowerFrom(s, i + 1)

\* str.lower(); the bound x holds the value of s, evaluated once
Lower(s) == CHOOSE r \in {LowerFrom(x, 1) : x \in {s}} : TRUE

\* `t in s` on strings
Contains(s, t) == \E i \in 1..(Len(s) - Len(t) + 1) : SubSeq(s, i, i + Len(t) - 1) = t

\* a ClaimQuestion as the pipeline reads it: question_type, answer_text, confidence
Question(t, a, c) == [question_type |-> t, answer_text |-> a, confidence |-> c]

\* dict held in ExtractedClaim.metadata; result_count -1 and text_length -1: key absent
EmptyMetadata ==
    [error |-> Absent, verification_status |-> Absent, result_count |-> -1,
     text_length |-> -1]

ExtractedClaim(text, from, conf, raw, meta, qs, segs) ==
    [claim_text |-> text, extracted_from |-> from, confidence |-> conf,
     raw_input_type |-> raw, metadata |-> meta, questions |-> qs, segments |-> segs]

\* a sentinel that carries no error text
ErrorClaimWithoutError(error_message) ==
    ExtractedClaim("", "hybrid", 0, "both", EmptyMetadata, <<>>, <<>>)

\* _create_error_claim
create_error_claim(error_message) ==
    ExtractedClaim("", "hybrid", 0, "both",
                   [EmptyMetadata EXCEPT !.error = error_message], <<>>, <<>>)

\* claims the text extractor may return for a claim text
TextClaimPool(text) ==
    { ExtractedClaim(text, "text", 100, "text_only",
                     [EmptyMetadata EXCEPT !.text_length = 16], <<>>, <<>>),
      ExtractedClaim(text, "text", 90, "text_only", EmptyMetadata,
                     << Question("who", "PMC", 95), Question("what", "training", 90),
                        Question("where", "Twitter", 80), Question("when", "next week", 30) >>,
                     <<"s1">>),
      ExtractedClaim(text, "text", 60, "text_only", EmptyMetadata,
                     << Question("what", "training", 90), Question("where", "news", 80) >>,
                     <<>>) }

\* claims the text-image extractor may return for an image
ImageClaimPool ==
    << ExtractedClaim("outer", "image", 70, "image_only", EmptyMetadata,
                     << Question("who", "PMC", 60), Question("what", "training", 70),
                        Question("where", "SP College", 80) >>, <<>>),
      ExtractedClaim("inner", "image", 50, "image_only", EmptyMetadata,
                     << Question("who", "PMC", 60), Question("where", "NEWS", 40),
                        Question("what", "training", 70) >>, <<>>) >>

ClaimTexts == {"T1"}
Images == {"img"}
SuppliedIds == {"r1"}

\* confidence 1.0 in the model's unit, chosen so that means of up to six
\* confidences given in whole percent are whole numbers
One == 100 * 60
Pct(p) == p * 60

\* a claim of the pools with its confidences in the model's unit
Scaled(c) ==
    [c EXCEPT !.confidence = Pct(@),
              !.questions = [i \in 1..Len(@) |-> [@[i] EXCEPT !.confidence = Pct(@)]]]

\* FactCheckRequest.at_least_one_required: falsy text and falsy image are rejected
RequestValid(r) ==
    ~( (r.claim_text = NoneVal \/ r.claim_text = "")
       /\ (r.image_data = NoneVal \/ r.image_data = "") )

\* a str field taken as given
NoStrip(s) == s

RECURSIVE Strip(_)
\* Config.str_strip_whitespace: leading and trailing whitespace removed
Strip(s) ==
    IF s = "" THEN ""
    ELSE IF SubSeq(s, 1, 1) = " " THEN Strip(SubSeq(s, 2, Len(s)))
    ELSE IF SubSeq(s, Len(s), Len(s)) = " " THEN Strip(SubSeq(s, 1, Len(s) - 1))
    ELSE s

\* FactCheckRequest(claim_text=..., image_data=..., request_id=...): the fields are
\* validated (str fields stripped), then at_least_one_required runs on the result
FactCheckRequest(claim_text, image_data, request_id) ==
    LET r == [claim_text |-> IF claim_text = NoneVal THEN NoneVal ELSE Strip(claim_text),
              image_data |-> image_data, request_id |-> request_id]
    IN  IF RequestValid(r) THEN [kind |-> "return", value |-> r]
        ELSE [kind |-> "raise",
              exc |-> [type |-> "ValidationError",
                       message |-> "At least one of claim_text or image_data must be provided"]]

\* what a caller may pass as claim_text and as image_data
GivenTexts == ClaimTexts \cup {NoneVal, "", "   ", " T1 "}
GivenImages == Images \cup {NoneVal, ""}

\* the requests a caller can construct
Requests ==
    { r \in [claim_text : ClaimTexts \cup {NoneVal}, image_data : Images \cup {NoneVal},
             request_id : SuppliedIds \cup {NoneVal}] : RequestValid(r) }

\* str(uuid.uuid4()): the value drawn in run r for the request id (slot 1) or the
\* claim id (slot 2); every draw yields a value of its own
Uuid(r, slot) == "uuid-" \o ToString(r) \o "-" \o ToString(slot)

\* keys under which the cache is read or written
CacheKeys ==
    ClaimTexts \cup {""} \cup SuppliedIds \cup {"req-123"}
    \cup {Uuid(r, 1) : r \in 1..MaxRuns}

\* heap cell that holds no object
NoObj == [free |-> TRUE]
HeapIds == 1..(MaxPresets + MaxRuns)

\* the heap index a newly constructed object gets
NewId(h) == CHOOSE i \in HeapIds : h[i] = NoObj /\ \A j \in 1..(i - 1) : h[j] # NoObj

\* the heap once the objects only a finished caller held are dropped
Collect(h, c) == [i \in HeapIds |-> IF \E k \in DOMAIN c : c[k] = i THEN h[i] ELSE NoObj]

\* Optional[...] fields: None, or a value
PyNone == [none |-> TRUE]
Some(v) == [none |-> FALSE, value |-> v]

FactCheckResponse(rid, cid, verdict, conf, ev, refs, expl, queries, cached, ms, details) ==
    [request_id |-> rid, claim_id |-> cid, verdict |-> verdict, confidence |-> conf,
     evidence |-> ev, references |-> refs, explanation |-> expl,
     search_queries_used |-> queries, cached |-> cached, processing_time_ms |-> ms,
     error_details |-> details]

\* a response as another client of the cache stored it (tests/fixtures.py sample_response)
SampleResponse ==
    FactCheckResponse("req-123", "claim-123", "authentic", 95, Some(<<>>), Some(<<>>),
                      "supported", Some(<<"sky blue">>), FALSE, 250, PyNone)

(***************************************************************************)
(* Stage instrumentation: logging_config.py                                *)
(***************************************************************************)
\* an exception raised by a collaborator or by the interpreter
Exc(type, message) == [type |-> type, message |-> message]

\* Python values handed to a stage, as far as _sanitize_value and str() tell them
\* apart: objects with __dict__, bytes, str, list, dict (its items in insertion
\* order) and other values, given by their str()
PyObject(typename) == [kind |-> "object", type |-> typename]
PyBytes(data) == [kind |-> "bytes", data |-> data]
PyStr(text) == [kind |-> "str", text |-> text]
PyOther(text) == [kind |-> "other", text |-> text]
PyList(items) == [kind |-> "list", items |-> items]
PyDict(pairs) == [kind |-> "dict", pairs |-> pairs]
Item(key, value) == [key |-> key, value |-> value]

RECURSIVE Repr(_), ReprItems(_), ReprPairs(_)
\* repr(value)
Repr(value) ==
    CASE value.kind = "bytes"  -> "b'" \o value.data \o "'"
      [] value.kind = "str"    -> "'" \o value.text \o "'"
      [] value.kind = "other"  -> value.text
      [] value.kind = "object" -> "<" \o value.type \o " object>"
      [] value.kind = "list"   -> "[" \o ReprItems(value.items) \o "]"
      [] value.kind = "dict"   -> "{" \o ReprPairs(value.pairs) \o "}"

ReprItems(items) ==
    IF items = <<>> THEN ""
    ELSE IF Len(items) = 1 THEN Repr(items[1])
    ELSE Repr(items[1]) \o ", " \o ReprItems(Tail(items))

ReprPairs(pairs) ==
    IF pairs = <<>> THEN ""
    ELSE LET first == "'" \o pairs[1].key \o "': " \o Repr(pairs[1].value)
         IN  IF Len(pairs) = 1 THEN first ELSE first \o ", " \o ReprPairs(Tail(pairs))

\* str(value)
Str(value) == IF value.kind = "str" THEN value.text ELSE Repr(value)

SensitiveKeywords == {"password", "token", "secret", "image_data", "api_key"}

\* _is_sensitive
is_sensitive(key) == \E keyword \in SensitiveKeywords : Contains(Lower(key), keyword)

RECURSIVE sanitize_value(_), SanitizePairs(_)
\* _sanitize_value: bytes give a size marker, a dict is sanitized without its
\* sensitive keys, an object with __dict__ gives its type name, anything else str()
sanitize_value(value) ==
    IF value.kind = "bytes" THEN PyStr("<bytes: " \o ToString(Len(value.data)) \o " bytes>")
    ELSE IF value.kind = "dict" THEN PyDict(SanitizePairs(value.pairs))
    ELSE IF value.kind = "object" THEN PyStr("<" \o value.type \o ">")
    ELSE PyStr(Str(value))

SanitizePairs(pairs) ==
    IF pairs = <<>> THEN <<>>
    ELSE (IF is_sensitive(pairs[1].key) THEN <<>>
          ELSE <<Item(pairs[1].key, sanitize_value(pairs[1].value))>>)
         \o SanitizePairs(Tail(pairs))

ArgKey(i) == "arg_" \o ToString(i)

\* params[key] = value on a dict: a key already there keeps its place
DictSet(pairs, key, value) ==
    IF \E i \in 1..Len(pairs) : pairs[i].key = key
    THEN [i \in 1..Len(pairs) |-> IF pairs[i].key = key THEN Item(key, value) ELSE pairs[i]]
    ELSE Append(pairs, Item(key, value))

RECURSIVE SetAll(_, _)
SetAll(pairs, kwargs) ==
    IF kwargs = <<>> THEN pairs
    ELSE SetAll(DictSet(pairs, kwargs[1].key, sanitize_value(kwargs[1].value)), Tail(kwargs))

\* _extract_params: self (an object) is skipped, positional arguments get the keys
\* arg_0, arg_1, ..., keyword arguments their names
extract_params(args, kwargs) ==
    LET param_list == IF args # <<>> /\ args[1].kind = "object" THEN Tail(args) ELSE args
        positional == [i \in 1..Len(param_list) |->
                          Item(ArgKey(i - 1), sanitize_value(param_list[i]))]
    IN  SetAll(positional, kwargs)

\* the PipelineExecutionError that a log_stage wrapper raises when the wrapped
\* function raised e
WrapStageError(stage_name, qualname, args, kwargs, e) ==
    [type |-> "PipelineExecutionError", message |-> e.message, stage_name |-> stage_name,
     function_name |-> qualname, input_params |-> extract_params(args, kwargs),
     original_exception |-> e]

\* what a call of the wrapped function does: returns a value, or raises
Returns(v) == [kind |-> "return", value |-> v]
RaisesExc(e) == [kind |-> "raise", exc |-> e]

\* a wrapper that calls the function a second time for its result
WrapperCallsTwice(stage_name, qualname, f, args, kwargs) ==
    [outcome |-> IF f.kind = "return" THEN f
                 ELSE RaisesExc(WrapStageError(stage_name, qualname, args, kwargs, f.exc)),
     fcalls |-> <<[args |-> args, kwargs |-> kwargs], [args |-> args, kwargs |-> kwargs]>>,
     log |-> <<"started", IF f.kind = "return" THEN "completed" ELSE "failed">>,
     trace |-> IF f.kind = "return"
               THEN <<"log started", "call", "log completed", "return">>
               ELSE <<"log started", "call", "log failed", "raise">>]

\* a wrapper that says nothing when the function raises
WrapperSilentOnFailure(stage_name, qualname, f, args, kwargs) ==
    [outcome |-> IF f.kind = "return" THEN f
                 ELSE RaisesExc(WrapStageError(stage_name, qualname, args, kwargs, f.exc)),
     fcalls |-> <<[args |-> args, kwargs |-> kwargs]>>,
     log |-> IF f.kind = "return" THEN <<"started", "completed">> ELSE <<"started">>,
     trace |-> IF f.kind = "return"
               THEN <<"log started", "call", "log completed", "return">>
               ELSE <<"log started", "call", "raise">>]

\* log_stage.async_wrapper: the outcome for the caller, the calls of the wrapped
\* function, the log events in order, and the order of the log events, the call of
\* the function and the hand-over to the caller
async_wrapper(stage_name, qualname, f, args, kwargs) ==
    [outcome |-> IF f.kind = "return" THEN f
                 ELSE RaisesExc(WrapStageError(stage_name, qualname, args, kwargs, f.exc)),
     fcalls |-> <<[args |-> args, kwargs |-> kwargs]>>,
     log |-> <<"started", IF f.kind = "return" THEN "completed" ELSE "failed">>,
     trace |-> IF f.kind = "return"
               THEN <<"log started", "call", "log completed", "return">>
               ELSE <<"log started", "call", "log failed", "raise">>]

\* log_stage.sync_wrapper
sync_wrapper(stage_name, qualname, f, args, kwargs) ==
    [outcome |-> IF f.kind = "return" THEN f
                 ELSE RaisesExc(WrapStageError(stage_name, qualname, args, kwargs, f.exc)),
     fcalls |-> <<[args |-> args, kwargs |-> kwargs]>>,
     log |-> <<"started", IF f.kind = "return" THEN "completed" ELSE "failed">>,
     trace |-> IF f.kind = "return"
               THEN <<"log started", "call", "log completed", "return">>
               ELSE <<"log started", "call", "log failed", "raise">>]

\* log_stage: the wrapper chosen by asyncio.iscoroutinefunction(func), called
log_stage(stage_name, qualname, is_coroutine, f, args, kwargs) ==
    IF is_coroutine THEN async_wrapper(stage_name, qualname, f, args, kwargs)
    ELSE sync_wrapper(stage_name, qualname, f, args, kwargs)

\* argument lists, keyword arguments and behaviours of wrapped functions
StageArgLists ==
    { <<>>,
      <<PyObject("FactCheckPipeline"), PyObject("FactCheckRequest")>>,
      <<PyBytes("PNGDATA")>>,
      <<PyObject("FactCheckPipeline"), PyStr("hello"), PyBytes("JPEG")>>,
      <<PyList(<<PyBytes("PNGDATA"), PyStr("caption")>>)>>,
      <<PyDict(<<Item("image_data", PyBytes("PNGDATA")), Item("note", PyStr("n1"))>>)>>,
      <<PyDict(<<Item("outer", PyDict(<<Item("Password", PyStr("hunter2")),
                                        Item("blob", PyBytes("JPEG"))>>))>>)>>,
      <<PyOther("42")>> }

StageKwargs ==
    { <<>>,
      <<Item("image_data", PyBytes("PNGDATA"))>>,
      <<Item("password", PyStr("hunter2"))>>,
      <<Item("API_KEY", PyStr("sk-1")), Item("limit", PyOther("5"))>>,
      <<Item("config", PyDict(<<Item("auth_token", PyStr("tok")),
                                Item("name", PyStr("n2"))>>))>>,
      <<Item("query", PyStr("sky blue"))>> }

StageBehaviours ==
    { Returns(PyOther("None")), Returns(PyStr("v1")),
      RaisesExc(Exc("ValueError", "bad value")), RaisesExc(Exc("RuntimeError", "boom")) }

(***************************************************************************)
(* Extraction coordinator: FactCheckPipeline._extract_claims               *)
(***************************************************************************)
Truthy(v) == v # NoneVal /\ v # ""

\* what one extraction collaborator call does: returns a claim, returns None, or raises
ReturnsClaim(c) == [kind |-> "claim", claim |-> c]
ReturnsNone == [kind |-> "none"]
Raises == [kind |-> "raise"]

TextOutcomes(text) ==
    {Raises} \cup {ReturnsClaim(Scaled(c)) : c \in TextClaimPool(text)}
\* the outcomes of extract_from_text_image / extract_from_top_image (o = 1) and
\* of extract_from_inside_image (o = 2)
ImageExtractOutcomes(o) ==
    {Raises, ReturnsNone} \cup {ReturnsClaim(Scaled(ImageClaimPool[o]))}

\* what the image collaborators do during one _process_image_input call
ImageScenario(isText, nested, separate, top, inside, simple) ==
    [is_text |-> isText, nested |-> nested, separate |-> separate,
     top |-> top, inside |-> inside, simple |-> simple]

ImageScenarios ==
    { ImageScenario("raise", "false", "ok", ReturnsNone, ReturnsNone, ReturnsNone),
      ImageScenario("false", "false", "ok", ReturnsNone, ReturnsNone, ReturnsNone),
      ImageScenario("true", "raise", "ok", ReturnsNone, ReturnsNone, ReturnsNone),
      ImageScenario("true", "true", "raise", ReturnsNone, ReturnsNone, ReturnsNone) }
    \cup { ImageScenario("true", "false", "ok", ReturnsNone, ReturnsNone, o) :
              o \in ImageExtractOutcomes(1) }
    \cup { ImageScenario("true", "true", "ok", t, i, ReturnsNone) :
              t \in ImageExtractOutcomes(1) \ {Raises}, i \in ImageExtractOutcomes(2) }
    \cup { ImageScenario("true", "true", "ok", Raises, ReturnsNone, ReturnsNone) }

\* whether an image collaborator call raises in the scenario
ImageRaises(io) ==
    \/ io.is_text = "raise"
    \/ io.is_text = "true" /\ io.nested = "raise"
    \/ io.is_text = "true" /\ io.nested = "true"
       /\ (io.separate = "raise" \/ io.top.kind = "raise" \/ io.inside.kind = "raise")
    \/ io.is_text = "true" /\ io.nested = "false" /\ io.simple.kind = "raise"

\* the claim a collaborator outcome appends to the list (nothing for None)
Appended(o) == IF o.kind = "claim" THEN <<o.claim>> ELSE <<>>

\* a helper that lets the extractor's exception through
ExtractTextClaimUncaught(txt) == txt

\* _extract_text_claim: the claim, or None when the extractor raised
extract_text_claim(txt) == IF txt.kind = "raise" THEN ReturnsNone ELSE txt

\* the inside claim put before the top claim
NestedClaimsInsideFirst(top, inside) == Appended(inside) \o Appended(top)

\* lines 206-220: the top claim (Output C) is appended, then the inside claim (Output D)
NestedClaims(top, inside) == Appended(top) \o Appended(inside)

\* _process_image_input: the returned list and the collaborator calls made
process_image_input(io) ==
    IF io.is_text = "raise"
    THEN [claims |-> <<>>, calls |-> <<"detect_text_image">>]
    ELSE IF io.is_text = "false"
    THEN [claims |-> <<create_error_claim("Image does not contain readable text")>>,
          calls |-> <<"detect_text_image">>]
    ELSE IF io.nested = "raise"
    THEN [claims |-> <<>>, calls |-> <<"detect_text_image", "detect_nested_image">>]
    ELSE IF io.nested = "true"
    THEN IF io.separate = "raise"
         THEN [claims |-> <<>>,
               calls |-> <<"detect_text_image", "detect_nested_image",
                           "separate_nested_image">>]
         ELSE IF io.top.kind = "raise"
         THEN [claims |-> <<>>,
               calls |-> <<"detect_text_image", "detect_nested_image",
                           "separate_nested_image", "extract_from_top_image">>]
         ELSE \* an exception of the inside extraction leaves the top claim in the list
              [claims |-> NestedClaims(io.top, io.inside),
               calls |-> <<"detect_text_image", "detect_nested_image",
                           "separate_nested_image", "extract_from_top_image",
                           "extract_from_inside_image">>]
    ELSE [claims |-> Appended(io.simple),
          calls |-> <<"detect_text_image", "detect_nested_image",
                      "extract_from_text_image">>]

\* a value returned by _extract_claims: a list of claims, or a bare ExtractedClaim
ClaimList(items) == [isList |-> TRUE, items |-> items]
BareClaim(c) == [isList |-> FALSE, items |-> <<c>>]

\* an extraction that keeps the image path's claims only when the text path gave none
ExtendUnlessTextClaim(text_claims, image_claims) ==
    IF text_claims # <<>> THEN text_claims ELSE image_claims

\* lines 150 and 156: claims.append(text_claim), then claims.extend(image_claims)
ExtendClaims(text_claims, image_claims) == text_claims \o image_claims

\* _extract_claims: the returned value and the collaborator calls made
extract_claims(req, txt, io) ==
    LET text_claim == IF Truthy(req.claim_text) THEN extract_text_claim(txt) ELSE ReturnsNone
        text_part  == IF Truthy(req.claim_text)
                      THEN [claims |-> Appended(text_claim),
                            calls |-> <<"text_extractor.extract">>]
                      ELSE [claims |-> <<>>, calls |-> <<>>]
        image_part == IF Truthy(req.image_data)
                      THEN process_image_input(io)
                      ELSE [claims |-> <<>>, calls |-> <<>>]
        claims     == ExtendClaims(text_part.claims, image_part.claims)
    IN  IF text_claim.kind = "raise"
        THEN \* an exception _extract_text_claim lets through leaves the stage
             [kind |-> "raise", value |-> ClaimList(<<>>), calls |-> text_part.calls]
        ELSE [kind |-> "return",
              value |-> IF claims # <<>>
                        THEN ClaimList(claims)
                        ELSE BareClaim(create_error_claim("No claims extracted from input")),
              calls |-> text_part.calls \o image_part.calls]

(***************************************************************************)
(* Verification engine: FactCheckPipeline._verify_claims                   *)
(***************************************************************************)
\* next((q for q in claim.questions if q.question_type == t), None):
\* the index of the question, 0 for None
FindQuestion(claim, t) ==
    FirstIndex([i \in 1..Len(claim.questions) |-> claim.questions[i].question_type = t])

\* a check that only asks for `what`
HasWhatOnly(claim) == FindQuestion(claim, "what") # 0

HasWhoAndWhat(claim) == FindQuestion(claim, "who") # 0 /\ FindQuestion(claim, "what") # 0

\* "where_a and where_a.answer_text": the answer text, "" when there is none
WhereText(claim) ==
    LET w == FindQuestion(claim, "where")
    IN  IF w = 0 THEN "" ELSE claim.questions[w].answer_text

\* a comparison that lowers the platform only
PlatformMatchesExact(platform, where_text) == Lower(platform) = where_text

\* the comparison that decides whether a platform is the claim's `where`
PlatformMatches(platform, where_text) == Lower(platform) = Lower(where_text)

\* _verify_claims step 3: claim_source_order
\* a reordering done on source_order itself
ReorderInPlace(default_order, claim_source_order) == claim_source_order

\* line 283: claim_source_order = list(source_order) is a copy, so remove() and
\* insert() on it leave source_order as it was
AfterReorder(default_order, claim_source_order) == default_order

ClaimSourceOrder(claim, default_order) ==
    LET where_text == WhereText(claim)
        hit == IF where_text = "" THEN 0
               ELSE FirstIndex([i \in 1..Len(default_order) |->
                                    PlatformMatches(default_order[i], where_text)])
    IN  IF hit = 0 THEN default_order
        ELSE <<default_order[hit]>> \o RemoveAt(default_order, hit)

\* a recording that starts from an empty metadata dict
NoConfidenceFreshMetadata(claim) ==
    [claim EXCEPT !.confidence = 0,
                  !.metadata = [EmptyMetadata EXCEPT !.verification_status = "no_evidence"]]

\* _record_no_confidence
record_no_confidence(claim) ==
    [claim EXCEPT !.confidence = 0,
                  !.metadata = [@ EXCEPT !.verification_status = "no_evidence"]]

RECURSIVE SumConfidence(_)
SumConfidence(qs) == IF qs = <<>> THEN 0 ELSE Head(qs).confidence + SumConfidence(Tail(qs))

\* a loop body that leaves every answer as it is
LeaveQuestion(q) == q

\* the loop of _record_confidence_from_match over claim.questions
BoostQuestion(q) ==
    IF q.question_type \in {"who", "what", "where"}
    THEN [q EXCEPT !.confidence = One]
    ELSE IF q.confidence < One \div 2 THEN [q EXCEPT !.confidence = One \div 2] ELSE q

\* _record_confidence_from_match
record_confidence_from_match(claim, search_results, found) ==
    IF ~found \/ search_results = <<>>
    THEN record_no_confidence(claim)
    ELSE LET qs == [i \in 1..Len(claim.questions) |-> BoostQuestion(claim.questions[i])]
         IN  [claim EXCEPT
                !.questions = qs,
                !.confidence = IF qs # <<>> THEN SumConfidence(qs) \div Len(qs) ELSE One,
                !.metadata = [@ EXCEPT !.verification_status = "matched",
                                       !.result_count = Len(search_results)]]

\* the ClaimQuestion values and the claims _record_confidence_from_match is called on
QuestionValues ==
    { Question(t, "a", Pct(c)) : t \in {"who", "what", "where", "when"}, c \in {30, 50, 80} }

QuestionLists == UNION { [1..n -> QuestionValues] : n \in 0..MaxQuestions }

\* metadata a claim may carry when its confidence is recorded
MetadataValues ==
    { EmptyMetadata,
      [EmptyMetadata EXCEPT !.text_length = 16],
      [EmptyMetadata EXCEPT !.verification_status = "matched", !.result_count = 1] }

ClaimsToRecord ==
    { ExtractedClaim("c", "text", Pct(90), "text_only", m, qs, <<"s1">>) :
        m \in MetadataValues, qs \in QuestionLists }
    \cup { create_error_claim("Image does not contain readable text") }

\* a match decision that takes any result for a match
MatchOnAnyResult(results) == results # <<>>

\* the match decision taken after each search (line 322): never a match
MatchFound(results) == FALSE

\* a SearchResult returned by a platform's searcher
SearchResult(platform, n) == [platform |-> platform, n |-> n]

\* what one searcher.search call does: raises, or returns a list of at most
\* `room` results
SearchOutcomes(platform, room) ==
    {[kind |-> "raise", results |-> <<>>]}
    \cup {[kind |-> "ok", results |-> [i \in 1..k |-> SearchResult(platform, i)]] :
            k \in 0..room}

(***************************************************************************)
(* Response assembly                                                       *)
(***************************************************************************)
\* error context that never reads the stage the exception carries
ErrorDetailsUnknownStage(exception) ==
    [failed_stage |-> "Unknown", failed_function |-> "Unknown",
     error_type |-> exception.type, error_message |-> exception.message,
     input_parameters |-> <<>>]

\* error context whose fallback reports the exception's type as its message
ErrorDetailsTypeAsMessage(exception) ==
    IF exception.type = "PipelineExecutionError"
    THEN [failed_stage |-> exception.stage_name,
          failed_function |-> exception.function_name,
          error_type |-> exception.original_exception.type,
          error_message |-> exception.original_exception.message,
          input_parameters |-> exception.input_params]
    ELSE [failed_stage |-> "Unknown", failed_function |-> "Unknown",
          error_type |-> exception.type, error_message |-> exception.type,
          input_parameters |-> <<>>]

\* ErrorDetails built by _generate_error_response
ErrorDetails(exception) ==
    IF exception.type = "PipelineExecutionError"
    THEN [failed_stage |-> exception.stage_name,
          failed_function |-> exception.function_name,
          error_type |-> exception.original_exception.type,
          error_message |-> exception.original_exception.message,
          input_parameters |-> exception.input_params]
    ELSE [failed_stage |-> "Unknown", failed_function |-> "Unknown",
          error_type |-> exception.type, error_message |-> exception.message,
          input_parameters |-> <<>>]

\* an error response that carries empty evidence and reference lists
ErrorResponseWithLists(req, exception, ms, rid_fallback, cid) ==
    FactCheckResponse(
        IF Truthy(req.request_id) THEN req.request_id ELSE rid_fallback, cid,
        "error", 0, Some(<<>>), Some(<<>>), "Fact-check failed", PyNone, FALSE, ms,
        Some(ErrorDetails(exception)))

\* _generate_error_response; rid_fallback and cid are fresh uuid4 values
generate_error_response(req, exception, ms, rid_fallback, cid) ==
    LET details == ErrorDetails(exception)
    IN  FactCheckResponse(
            IF Truthy(req.request_id) THEN req.request_id ELSE rid_fallback, cid,
            "error", 0, PyNone, PyNone,
            "Fact-check failed at stage: " \o details.failed_stage \o ". "
                \o details.error_message,
            PyNone, FALSE, ms, Some(details))

\* what the body of _generate_response does with the value check_claim passes as
\* `claim`: a list has no attribute claim_text (line 417); for an ExtractedClaim the
\* Reference built at lines 424-429 lacks the required field `platform`
generate_response(req, claim, results) ==
    IF claim.isList
    THEN [kind |-> "raise",
          exc |-> Exc("AttributeError", "'list' object has no attribute 'claim_text'")]
    ELSE [kind |-> "raise",
          exc |-> Exc("ValidationError", "1 validation error for Reference: platform")]

\* _check_cache: cache_key = request.claim_text or ""
LookupKey(req) == IF Truthy(req.claim_text) THEN req.claim_text ELSE ""

\* _cache_response: cache_key = response.request_id
StorageKey(resp) == resp.request_id

\* processing_time_ms values a run may measure
ElapsedMs == {1}

(***************************************************************************)
(* The orchestrator: FactCheckPipeline.check_claim, one action per step    *)
(* between two suspension points                                           *)
(***************************************************************************)
envVars == <<run, presets>>
reqVars == <<request, suppliedId, request_id_var>>
verifyVars == <<vidx, order, sidx, claim_results, all_results, queried, match_found,
                source_order>>

\* the state of one check_claim run and of its cache
runVars == <<pc, envVars, reqVars, cache, heap, extracted, verifyVars, raised, response,
             started, completed, failedStage, calls, cacheHit, fault, stored, outcomes>>

NoException == Exc("", "")
NoStore == [key |-> NoneVal, by |-> 0]
NoImage == ImageScenario("false", "false", "ok", ReturnsNone, ReturnsNone, ReturnsNone)
NoOutcomes == [txt |-> ReturnsNone, io |-> NoImage]
NoUnit == [fn |-> "none"]
NoTasks == [on |-> FALSE]
\* no item under a key of Cache._cache
NoEntry == [present |-> FALSE]
NoMem == [on |-> FALSE]
NoRequest == [claim_text |-> NoneVal, image_data |-> NoneVal, request_id |-> NoneVal]

Init ==
    /\ pc = "idle"
    /\ run = 0
    /\ request = NoRequest
    /\ suppliedId = NoneVal
    /\ request_id_var = "N/A"
    /\ cache = [k \in CacheKeys |-> 0]
    /\ heap = [i \in HeapIds |-> NoObj]
    /\ presets = 0
    /\ extracted = ClaimList(<<>>)
    /\ vidx = 0
    /\ order = <<>>
    /\ sidx = 0
    /\ claim_results = <<>>
    /\ all_results = <<>>
    /\ queried = <<>>
    /\ raised = NoException
    /\ response = 0
    /\ started = <<>>
    /\ completed = <<>>
    /\ failedStage = NoneVal
    /\ calls = <<>>
    /\ cacheHit = FALSE
    /\ fault = FALSE
    /\ stored = NoStore
    /\ outcomes = NoOutcomes
    /\ unit = NoUnit
    /\ match_found = FALSE
    /\ source_order = <<>>
    /\ tasks = NoTasks
    /\ mem = NoMem

\* a value another client of the cache stores that is no FactCheckResponse (Cache.set
\* takes any object): a response as a non-empty dict
ForeignEntry == PyDict(<<Item("verdict", PyStr("authentic"))>>)

\* whether an object of the heap is a FactCheckResponse
IsResponse(obj) == "verdict" \in DOMAIN obj

\* lines 88-91 on a cached value: the attribute assignment succeeds on a
\* FactCheckResponse; a dict has no attribute `cached`
HitPostProcessing(cached) ==
    IF IsResponse(cached)
    THEN Returns(cached)
    ELSE RaisesExc(Exc("AttributeError", "'dict' object has no attribute 'cached'"))

\* Cache.set (storage/cache.py), called by another client of the shared cache
ExternalCacheSet ==
    /\ pc = "idle"
    /\ presets < MaxPresets
    /\ \E key \in {"T1", ""} :
         /\ heap' = [heap EXCEPT ![NewId(heap)] = SampleResponse]
         /\ cache' = [cache EXCEPT ![key] = NewId(heap)]
    /\ presets' = presets + 1
    /\ UNCHANGED <<pc, run, reqVars, extracted, verifyVars, raised, response, started,
                   completed, failedStage, calls, cacheHit, fault>>
    /\ UNCHANGED stored
    /\ UNCHANGED <<outcomes, unit, tasks, mem>>

\* check_claim, lines 73-81: the request id is assigned and published
CheckClaimStart ==
    /\ pc = "idle"
    /\ run < MaxRuns
    /\ \E req \in Requests :
         /\ suppliedId' = req.request_id
         /\ request' = [req EXCEPT !.request_id = IF Truthy(@) THEN @ ELSE Uuid(run + 1, 1)]
    /\ request_id_var' = request'.request_id
    /\ run' = run + 1
    /\ pc' = "lookup"
    /\ UNCHANGED <<cache, heap, presets, extracted, verifyVars, raised, response, started,
                   completed, failedStage, calls, cacheHit, fault>>
    /\ UNCHANGED stored
    /\ UNCHANGED <<outcomes, unit, tasks, mem>>

\* a wrapped stage raised e: its log_stage wrapper raises the PipelineExecutionError
\* (logging_config.py, lines 143-170), which check_claim catches
StageFails(stage_name, qualname, args, e) ==
    /\ raised' = WrapStageError(stage_name, qualname, args, <<>>, e)
    /\ failedStage' = stage_name
    /\ pc' = "error"

Self == PyObject("FactCheckPipeline")

\* a cache hit that stamps the time and leaves the flag as stored
ServeCachedUnmarked(cached, ms) == [cached EXCEPT !.processing_time_ms = ms]

\* lines 88-91: the cached response is marked and stamped in place
ServeCached(cached, ms) == [cached EXCEPT !.cached = TRUE, !.processing_time_ms = ms]

\* a pipeline that verifies before it extracts
NextStageSwapped(p) ==
    CASE p = "lookup"      -> "verify"
      [] p = "extract"     -> "generate"
      [] p = "verifyClaim" -> "extract"
      [] p = "generate"    -> "store"

\* the position check_claim moves to when the stage at position p has returned
\* (lines 94-106)
NextStage(p) ==
    CASE p = "lookup"      -> "extract"
      [] p = "extract"     -> "verify"
      [] p = "verifyClaim" -> "generate"
      [] p = "generate"    -> "store"

\* a loop that never advances
NextClaimStuck(i) == i

\* `for claim in claims`: the index of the claim after claim i
NextClaim(i) == i + 1

\* a source failure that ends the traversal of the claim's sources
AbortAfterSourceFailure(i, claim_source_order) == Len(claim_source_order) + 1

\* `continue` in the except clause of the search loop (line 333): the position of
\* the next platform
AfterSourceFailure(i, claim_source_order) == i + 1

\* Stage 1, lines 84-92 and 130-134, with Cache.get of storage/cache.py
CacheLookup ==
    /\ pc = "lookup"
    /\ started' = Append(started, "Cache Lookup")
    /\ calls' = Append(calls, "cache.get")
    /\ LET key == LookupKey(request) IN
       \/ \* the cache collaborator raises
          /\ StageFails("Cache Lookup", "FactCheckPipeline._check_cache",
                        <<Self, PyObject("FactCheckRequest")>>,
                        Exc("Exception", "Cache error"))
          /\ fault' = TRUE
          /\ UNCHANGED <<cache, heap, completed, response, cacheHit, stored>>
       \/ \* key not in self._cache
          /\ cache[key] = 0
          /\ completed' = Append(completed, "Cache Lookup")
          /\ pc' = NextStage("lookup")
          /\ UNCHANGED <<cache, heap, raised, failedStage, response, cacheHit, fault, stored>>
       \/ \* the entry has expired: it is deleted and None is returned
          /\ cache[key] # 0
          /\ cache' = [cache EXCEPT ![key] = 0]
          /\ stored' = IF stored.key = key THEN NoStore ELSE stored
          /\ completed' = Append(completed, "Cache Lookup")
          /\ pc' = NextStage("lookup")
          /\ UNCHANGED <<heap, raised, failedStage, response, cacheHit, fault>>
       \/ \* cache hit on a value that is no response: the assignment at line 87
          \* raises outside every stage wrapper, and `except Exception` catches it
          /\ cache[key] # 0
          /\ HitPostProcessing(heap[cache[key]]).kind = "raise"
          /\ completed' = Append(completed, "Cache Lookup")
          /\ raised' = HitPostProcessing(heap[cache[key]]).exc
          /\ pc' = "error"
          /\ UNCHANGED <<cache, heap, failedStage, response, cacheHit, fault, stored>>
       \/ \* cache hit: the stored object is marked and returned
          /\ cache[key] # 0
          /\ HitPostProcessing(heap[cache[key]]).kind = "return"
          /\ completed' = Append(completed, "Cache Lookup")
          /\ \E ms \in ElapsedMs :
               heap' = [heap EXCEPT ![cache[key]] = ServeCached(@, ms)]
          /\ response' = cache[key]
          /\ cacheHit' = TRUE
          /\ pc' = "done"
          /\ UNCHANGED <<cache, raised, failedStage, fault, stored>>
    /\ UNCHANGED <<envVars, reqVars, extracted, verifyVars>>
    /\ UNCHANGED <<outcomes, unit, tasks, mem>>

\* Stage 2, lines 95 and 136-165
ClaimExtraction ==
    /\ pc = "extract"
    /\ \E txt \in (IF Truthy(request.claim_text)
                   THEN TextOutcomes(request.claim_text) ELSE {ReturnsNone}),
          io \in (IF Truthy(request.image_data)
                  THEN ImageScenarios
                  ELSE {NoImage}) :
         LET out == extract_claims(request, txt, io)
         IN  /\ outcomes' = [txt |-> txt, io |-> io]
             /\ calls' = calls \o out.calls
             /\ fault' = (fault \/ (Truthy(request.claim_text) /\ txt.kind = "raise")
                                \/ (Truthy(request.image_data) /\ ImageRaises(io)))
             /\ IF out.kind = "raise"
                THEN /\ StageFails("Claim Extraction", "FactCheckPipeline._extract_claims",
                                   <<Self, PyObject("FactCheckRequest")>>,
                                   Exc("Exception", "TextExtractor failed"))
                     /\ UNCHANGED <<extracted, completed>>
                ELSE /\ extracted' = out.value
                     /\ completed' = Append(completed, "Claim Extraction")
                     /\ pc' = NextStage("extract")
                     /\ UNCHANGED <<raised, failedStage>>
    /\ started' = Append(started, "Claim Extraction")
    /\ UNCHANGED <<envVars, reqVars, cache, heap, verifyVars, response, cacheHit>>
    /\ UNCHANGED stored
    /\ UNCHANGED <<unit, tasks, mem>>

\* Stage 3 begins (lines 246-264): iterating a value that is no list of claims
\* yields (field, value) tuples, which have no attribute `questions`
VerifyStart ==
    /\ pc = "verify"
    /\ started' = Append(started, "Claim Verification")
    /\ IF extracted.isList
       THEN /\ source_order' = DefaultSourceOrder
            /\ vidx' = 1
            /\ queried' = [i \in 1..Len(extracted.items) |-> <<>>]
            /\ pc' = "verifyClaim"
            /\ UNCHANGED <<raised, failedStage>>
       ELSE /\ StageFails("Claim Verification", "FactCheckPipeline._verify_claims",
                          <<Self, PyObject("ExtractedClaim")>>,
                          Exc("AttributeError", "'tuple' object has no attribute 'questions'"))
            /\ UNCHANGED <<vidx, queried, source_order>>
    /\ UNCHANGED <<envVars, reqVars, cache, heap, extracted, order, sidx, claim_results,
                   all_results, match_found, response, completed, calls, cacheHit, fault>>
    /\ UNCHANGED stored
    /\ UNCHANGED <<outcomes, unit, tasks, mem>>

\* Stage 3, lines 266-311: the next claim up to its first search, or the return
VerifyClaim ==
    /\ pc = "verifyClaim"
    /\ IF vidx > Len(extracted.items)
       THEN \* return all_search_results
            /\ completed' = Append(completed, "Claim Verification")
            /\ pc' = NextStage("verifyClaim")
            /\ UNCHANGED <<extracted, vidx, order, sidx, claim_results, match_found,
                           source_order>>
       ELSE LET claim == extracted.items[vidx] IN
            /\ IF ~HasWhoAndWhat(claim)
               THEN /\ extracted' = [extracted EXCEPT
                                        !.items[vidx] = record_no_confidence(claim)]
                    /\ vidx' = NextClaim(vidx)
                    /\ UNCHANGED <<pc, order, sidx, claim_results, match_found,
                                   source_order>>
               ELSE /\ order' = ClaimSourceOrder(claim, source_order)
                    /\ source_order' = AfterReorder(source_order, order')
                    /\ sidx' = 1
                    /\ claim_results' = <<>>
                    /\ match_found' = FALSE
                    /\ pc' = "search"
                    /\ UNCHANGED <<extracted, vidx>>
            /\ UNCHANGED completed
    /\ UNCHANGED <<envVars, reqVars, cache, heap, all_results, queried, raised, response,
                   started, failedStage, calls, cacheHit, fault>>
    /\ UNCHANGED stored
    /\ UNCHANGED <<outcomes, unit, tasks, mem>>

\* Stage 3, lines 313-333: one iteration of the loop over claim_source_order
SearchSource ==
    /\ pc = "search"
    /\ sidx <= Len(order)
    /\ ~match_found
    /\ LET platform == order[sidx] IN
       IF get_searcher(platform).kind = "raise"
       THEN \* get_searcher raised: logged, next platform
            /\ fault' = TRUE
            /\ sidx' = AfterSourceFailure(sidx, order)
            /\ UNCHANGED <<claim_results, queried, calls, match_found>>
       ELSE /\ queried' = [queried EXCEPT ![vidx] = Append(@, platform)]
            /\ calls' = Append(calls, "search:" \o platform)
            /\ \E o \in SearchOutcomes(platform,
                            MaxResults - Len(all_results) - Len(claim_results)) :
                 IF o.kind = "raise"
                 THEN /\ fault' = TRUE
                      /\ sidx' = AfterSourceFailure(sidx, order)
                      /\ UNCHANGED <<claim_results, match_found>>
                 ELSE /\ claim_results' = claim_results \o o.results
                      /\ match_found' = MatchFound(claim_results')
                      /\ sidx' = sidx + 1
                      /\ UNCHANGED fault
    /\ UNCHANGED <<pc, envVars, reqVars, cache, heap, extracted, vidx, order, all_results,
                   source_order,
                   raised, response, started, completed, failedStage, cacheHit>>
    /\ UNCHANGED stored
    /\ UNCHANGED <<outcomes, unit, tasks, mem>>

\* Stage 3, lines 335-339: the loop has ended (exhausted, or left by break)
RecordConfidence ==
    /\ pc = "search"
    /\ sidx > Len(order) \/ match_found
    /\ extracted' = [extracted EXCEPT !.items[vidx] =
                        record_confidence_from_match(@, claim_results, match_found)]
    /\ all_results' = all_results \o claim_results
    /\ vidx' = NextClaim(vidx)
    /\ pc' = "verifyClaim"
    /\ UNCHANGED <<envVars, reqVars, cache, heap, order, sidx, claim_results, queried,
                   source_order,
                   match_found, raised, response, started, completed, failedStage, calls,
                   cacheHit, fault>>
    /\ UNCHANGED stored
    /\ UNCHANGED <<outcomes, unit, tasks, mem>>

\* Stage 4, lines 101-103 and 401-445; on success the run goes on to Stage 5
ResponseGeneration ==
    /\ pc = "generate"
    /\ started' = Append(started, "Response Generation")
    /\ LET out == generate_response(request, extracted, all_results) IN
       IF out.kind = "raise"
       THEN /\ StageFails("Response Generation", "FactCheckPipeline._generate_response",
                          <<Self, PyObject("FactCheckRequest"), PyOther("[claims]"),
                            PyOther("[results]"), PyOther("start_time")>>,
                          out.exc)
            /\ UNCHANGED <<heap, response, completed>>
       ELSE /\ heap' = [heap EXCEPT ![NewId(heap)] = out.response]
            /\ response' = NewId(heap)
            /\ completed' = Append(completed, "Response Generation")
            /\ pc' = NextStage("generate")
            /\ UNCHANGED <<raised, failedStage>>
    /\ UNCHANGED <<envVars, reqVars, cache, extracted, verifyVars, calls, cacheHit, fault>>
    /\ UNCHANGED stored
    /\ UNCHANGED <<outcomes, unit, tasks, mem>>

\* an except clause that puts the error response in the cache before returning it
CacheSetOnError(store, key, id) == [store EXCEPT ![key] = id]

\* lines 115-119 and 124-128: the error response is returned, and _cache_response
\* is not called on it
ReturnUncached(store, key, id) == store

\* check_claim's except clauses, lines 111-128, and _generate_error_response
ErrorResponse ==
    /\ pc = "error"
    /\ \E ms \in ElapsedMs :
         heap' = [heap EXCEPT ![NewId(heap)] =
                     generate_error_response(request, raised, ms, Uuid(run, 1), Uuid(run, 2))]
    /\ response' = NewId(heap)
    /\ cache' = ReturnUncached(cache, StorageKey(heap'[response']), response')
    /\ pc' = "done"
    /\ UNCHANGED <<envVars, reqVars, extracted, verifyVars, raised, started,
                   completed, failedStage, calls, cacheHit, fault>>
    /\ UNCHANGED stored
    /\ UNCHANGED <<outcomes, unit, tasks, mem>>

\* check_claim has returned: its locals are gone, and the caller lets go of the
\* request and of the response
CheckClaimReturn ==
    /\ pc = "done"
    /\ pc' = "idle"
    /\ request' = NoRequest
    /\ suppliedId' = NoneVal
    /\ heap' = Collect(heap, cache)
    /\ extracted' = ClaimList(<<>>)
    /\ vidx' = 0 /\ order' = <<>> /\ sidx' = 0 /\ source_order' = <<>>
    /\ claim_results' = <<>> /\ all_results' = <<>> /\ queried' = <<>>
    /\ raised' = NoException
    /\ response' = 0
    /\ started' = <<>> /\ completed' = <<>>
    /\ failedStage' = NoneVal
    /\ calls' = <<>>
    /\ cacheHit' = FALSE
    /\ fault' = FALSE
    /\ outcomes' = NoOutcomes
    /\ match_found' = FALSE
    /\ UNCHANGED <<run, request_id_var, cache, presets>>
    /\ UNCHANGED stored
    /\ UNCHANGED <<unit, tasks, mem>>

\* Stage 5, lines 447-458, invoked on the response a run has returned:
\* Cache.set under the key _cache_response computes
CacheStorage ==
    /\ pc = "done"
    /\ \A i \in 1..Len(calls) : calls[i] # "cache.set"
    /\ started' = Append(started, "Cache Storage")
    /\ calls' = Append(calls, "cache.set")
    /\ \/ \* the cache collaborator raises
          /\ fault' = TRUE
          /\ UNCHANGED <<cache, completed, stored>>
       \/ /\ cache' = [cache EXCEPT ![StorageKey(heap[response])] = response]
          /\ completed' = Append(completed, "Cache Storage")
          /\ stored' = [key |-> LookupKey(request), by |-> run]
          /\ UNCHANGED fault
    /\ UNCHANGED <<pc, envVars, reqVars, heap, extracted, verifyVars, raised, response,
                   failedStage, cacheHit>>
    /\ UNCHANGED <<outcomes, unit, tasks, mem>>

Next ==
    \/ ExternalCacheSet
    \/ CheckClaimStart
    \/ CacheLookup
    \/ ClaimExtraction
    \/ VerifyStart
    \/ VerifyClaim
    \/ SearchSource
    \/ RecordConfidence
    \/ ResponseGeneration
    \/ ErrorResponse
    \/ CheckClaimReturn

Spec == Init /\ [][Next]_vars

\* _record_confidence_from_match called on a claim, a list of results and a match flag
RecordConfidenceCall ==
    /\ unit = NoUnit
    /\ \E claim \in ClaimsToRecord, n \in 0..2, found \in BOOLEAN :
         LET search_results == [i \in 1..n |-> SearchResult("news", i)]
         IN  unit' = [fn |-> "_record_confidence_from_match", claim |-> claim,
                      search_results |-> search_results, match_found |-> found,
                      after |-> record_confidence_from_match(claim, search_results, found)]
    /\ UNCHANGED <<pc, envVars, reqVars, cache, heap, extracted, verifyVars, raised,
                   response, started, completed, failedStage, calls, cacheHit, fault,
                   stored, outcomes, tasks, mem>>

\* the functions of the program called on their own
\* a function wrapped by log_stage("Stage") called with positional and keyword
\* arguments
WrappedStageCall ==
    /\ unit = NoUnit
    /\ \E is_coroutine \in BOOLEAN, f \in StageBehaviours,
          args \in StageArgLists, kwargs \in StageKwargs :
         unit' = [fn |-> "log_stage", is_coroutine |-> is_coroutine, f |-> f,
                  args |-> args, kwargs |-> kwargs,
                  result |-> log_stage("Stage", "Owner.func", is_coroutine, f, args, kwargs)]
    /\ UNCHANGED <<pc, envVars, reqVars, cache, heap, extracted, verifyVars, raised,
                   response, started, completed, failedStage, calls, cacheHit, fault,
                   stored, outcomes, tasks, mem>>

\* one construction of a FactCheckRequest
RequestConstruction ==
    /\ unit = NoUnit
    /\ \E claim_text \in GivenTexts, image_data \in GivenImages,
          request_id \in SuppliedIds \cup {NoneVal} :
         unit' = [fn |-> "FactCheckRequest", claim_text |-> claim_text,
                  image_data |-> image_data, request_id |-> request_id,
                  result |-> FactCheckRequest(claim_text, image_data, request_id)]
    /\ UNCHANGED <<pc, envVars, reqVars, cache, heap, extracted, verifyVars, raised,
                   response, started, completed, failedStage, calls, cacheHit, fault,
                   stored, outcomes, tasks, mem>>

UnitNext ==
    \/ RecordConfidenceCall
    \/ WrappedStageCall
    \/ RequestConstruction

UnitSpec == Init /\ [][UnitNext]_vars

\* the steps of a run in progress: the event loop resumes the coroutine whenever
\* the collaborator call it awaits has returned or raised
RunStep ==
    \/ CacheLookup
    \/ ClaimExtraction
    \/ VerifyStart
    \/ VerifyClaim
    \/ SearchSource
    \/ RecordConfidence
    \/ ResponseGeneration
    \/ ErrorResponse

FairSpec == Spec /\ WF_vars(RunStep)

\* the pipeline with its storage stage also invoked on returned responses
StageNext == Next \/ CacheStorage

StageSpec == Init /\ [][StageNext]_vars

\* Cache.set called by another client with a value that is no FactCheckResponse
ExternalCacheSetUntyped ==
    /\ pc = "idle"
    /\ presets < MaxPresets
    /\ \E key \in {"T1", ""} :
         /\ heap' = [heap EXCEPT ![NewId(heap)] = ForeignEntry]
         /\ cache' = [cache EXCEPT ![key] = NewId(heap)]
    /\ presets' = presets + 1
    /\ UNCHANGED <<pc, run, reqVars, extracted, verifyVars, raised, response, started,
                   completed, failedStage, calls, cacheHit, fault>>
    /\ UNCHANGED stored
    /\ UNCHANGED <<outcomes, unit, tasks, mem>>

\* check_claim on a cache that other clients fill with values of any type
UntypedNext == Next \/ ExternalCacheSetUntyped

UntypedCacheSpec == Init /\ [][UntypedNext]_vars

(***************************************************************************)
(* Two calls scheduled as concurrent tasks on one event loop: two          *)
(* check_claim runs, or two calls of the storage stage.  A step of a task  *)
(* runs from one suspension point (await) to the next.  Of a stage only    *)
(* what the tasks can observe of each other is kept: the context variable, *)
(* the log, the cache, and the progress of the extraction branches.        *)
(***************************************************************************)
Tasks == {"A", "B"}
TaskIds == {"r1", "r2"}

\* the uuid4 drawn by a task for a request without request_id
TaskUuid(t) == IF t = "A" THEN Uuid(1, 1) ELSE Uuid(2, 1)

\* the response a task hands to _cache_response: request_id and claim_id
TaskResponse(t, rid) == [request_id |-> rid, claim_id |-> "claim-" \o t]

\* one context shared by all tasks
SharedContext(t) == "A"

\* the context a task runs in: asyncio gives every task a copy of its own, so that
\* request_id_var.set (line 75) is seen by that task only
ContextOf(t) == t

\* RequestIdLoggerAdapter.process: a log event of task t, tagged with
\* request_id_var.get() as read in the context of t
Emit(ts, t, event) ==
    [ts EXCEPT !.log = @ \cup {[task |-> t, event |-> event,
                                request_id |-> ts.context[ContextOf(t)]]}]

\* a cache that keeps the first value stored under a key
KeepFirstWrite(store, key, value) ==
    IF store[key] = NoEntry THEN [store EXCEPT ![key] = [present |-> TRUE, value |-> value]]
    ELSE store

\* Cache.set, line 36: self._cache[key] = {...}
CacheSetInto(store, key, value) ==
    [store EXCEPT ![key] = [present |-> TRUE, value |-> value]]

\* asyncio.gather / create_task: both calls are scheduled, each with its argument
TaskSchedule ==
    /\ tasks = NoTasks
    /\ \/ \E ra \in Requests, rb \in Requests :
            tasks' = [on |-> TRUE, job |-> "check_claim",
                      arg |-> [t \in Tasks |-> IF t = "A" THEN ra ELSE rb],
                      rid |-> [t \in Tasks |-> NoneVal],
                      pc |-> [t \in Tasks |-> "new"],
                      context |-> [t \in Tasks |-> "N/A"],
                      log |-> {},
                      store |-> [k \in TaskIds |-> NoEntry],
                      text |-> [t \in Tasks |-> "idle"],
                      image |-> [t \in Tasks |-> "idle"],
                      sets |-> <<>>]
       \/ \E ia \in TaskIds, ib \in TaskIds :
            tasks' = [on |-> TRUE, job |-> "_cache_response",
                      arg |-> [t \in Tasks |-> TaskResponse(t, IF t = "A" THEN ia ELSE ib)],
                      rid |-> [t \in Tasks |-> NoneVal],
                      pc |-> [t \in Tasks |-> "new"],
                      context |-> [t \in Tasks |-> "N/A"],
                      log |-> {},
                      store |-> [k \in TaskIds |-> NoEntry],
                      text |-> [t \in Tasks |-> "idle"],
                      image |-> [t \in Tasks |-> "idle"],
                      sets |-> <<>>]
    /\ UNCHANGED <<runVars, unit, mem>>

\* check_claim lines 73-80: the request id is fixed and put in the context variable,
\* then the first event is logged
TaskStart(t) ==
    /\ tasks.on /\ tasks.job = "check_claim" /\ tasks.pc[t] = "new"
    /\ LET id == IF Truthy(tasks.arg[t].request_id) THEN tasks.arg[t].request_id
                 ELSE TaskUuid(t)
           set == [tasks EXCEPT !.rid[t] = id, !.context[ContextOf(t)] = id,
                                !.pc[t] = "lookup"]
       IN  tasks' = Emit(set, t, "Fact-check request started")
    /\ UNCHANGED <<runVars, unit, mem>>

\* Stage 1: the cache of the tasks holds entries under request ids only
TaskCacheLookup(t) ==
    /\ tasks.on /\ tasks.pc[t] = "lookup"
    /\ LET key == LookupKey(tasks.arg[t])
           hit == key \in TaskIds /\ tasks.store[key].present
           logged == Emit(Emit(tasks, t, "Cache Lookup started"), t, "Cache Lookup completed")
       IN  tasks' = [logged EXCEPT !.pc[t] = IF hit THEN "done" ELSE "extract"]
    /\ UNCHANGED <<runVars, unit, mem>>

\* Stage 2 up to its first await: line 148, the text extractor is called; without
\* text the stage is at line 153
TaskExtractionStart(t) ==
    /\ tasks.on /\ tasks.pc[t] = "extract"
    /\ LET logged == Emit(tasks, t, "Claim Extraction started") IN
       IF Truthy(tasks.arg[t].claim_text)
       THEN tasks' = [logged EXCEPT !.pc[t] = "text", !.text[t] = "running"]
       ELSE tasks' = [logged EXCEPT !.pc[t] = "afterText"]
    /\ UNCHANGED <<runVars, unit, mem>>

\* lines 148-150 and 167-173: the text extractor returns or raises; _extract_text_claim
\* catches what it raises
TaskTextReturns(t) ==
    /\ tasks.on /\ tasks.pc[t] = "text"
    /\ \E outcome \in {"returned", "raised"} :
         LET after == [tasks EXCEPT !.text[t] = outcome] IN
         IF Truthy(tasks.arg[t].image_data)
         THEN tasks' = [after EXCEPT !.pc[t] = "afterText"]
         ELSE tasks' = [Emit(after, t, "Claim Extraction completed") EXCEPT !.pc[t] = "verify"]
    /\ UNCHANGED <<runVars, unit, mem>>

\* lines 153-154: image processing is entered, up to its first await
TaskImageStart(t) ==
    /\ tasks.on /\ tasks.pc[t] = "afterText"
    /\ Truthy(tasks.arg[t].image_data)
    /\ tasks' = [tasks EXCEPT !.pc[t] = "image", !.image[t] = "running"]
    /\ UNCHANGED <<runVars, unit, mem>>

\* lines 175-233: image processing returns its claims; what a collaborator raises is
\* caught at line 228
TaskImageReturns(t) ==
    /\ tasks.on /\ tasks.pc[t] = "image"
    /\ \E outcome \in {"returned", "raised"} :
         tasks' = [Emit([tasks EXCEPT !.image[t] = outcome], t, "Claim Extraction completed")
                      EXCEPT !.pc[t] = "verify"]
    /\ UNCHANGED <<runVars, unit, mem>>

\* Stage 3: returns, or fails over the bare claim of an extraction without claims
TaskVerification(t) ==
    /\ tasks.on /\ tasks.pc[t] = "verify"
    /\ LET logged == Emit(tasks, t, "Claim Verification started") IN
       IF tasks.text[t] = "returned" \/ tasks.image[t] = "returned"
       THEN tasks' = [Emit(logged, t, "Claim Verification completed")
                         EXCEPT !.pc[t] = "generate"]
       ELSE tasks' = [Emit(logged, t, "Claim Verification failed") EXCEPT !.pc[t] = "error"]
    /\ UNCHANGED <<runVars, unit, mem>>

\* Stage 4 inside check_claim: raises on the list passed as `claim`
TaskGeneration(t) ==
    /\ tasks.on /\ tasks.pc[t] = "generate"
    /\ tasks' = [Emit(Emit(tasks, t, "Response Generation started"),
                       t, "Response Generation failed") EXCEPT !.pc[t] = "error"]
    /\ UNCHANGED <<runVars, unit, mem>>

\* lines 111-119: the error response is built and returned
TaskErrorResponse(t) ==
    /\ tasks.on /\ tasks.pc[t] = "error"
    /\ tasks' = [Emit(Emit(tasks, t, "Pipeline failed"),
                       t, "Fact-check request completed with error response")
                    EXCEPT !.pc[t] = "done"]
    /\ UNCHANGED <<runVars, unit, mem>>

\* _cache_response called by a task: the wrapper logs, the stage reaches
\* `await self.cache.set(...)` at line 458
TaskStorageStart(t) ==
    /\ tasks.on /\ tasks.job = "_cache_response" /\ tasks.pc[t] = "new"
    /\ tasks' = [Emit(tasks, t, "Cache Storage started") EXCEPT !.pc[t] = "storing"]
    /\ UNCHANGED <<runVars, unit, mem>>

\* Cache.set runs without suspending, then the wrapper logs and returns
TaskStorageSet(t) ==
    /\ tasks.on /\ tasks.pc[t] = "storing"
    /\ LET resp == tasks.arg[t]
           written == [tasks EXCEPT
                          !.store = CacheSetInto(@, StorageKey(resp), resp),
                          !.sets = Append(@, t),
                          !.pc[t] = "done"]
       IN  tasks' = Emit(written, t, "Cache Storage completed")
    /\ UNCHANGED <<runVars, unit, mem>>

TaskNext ==
    \/ TaskSchedule
    \/ \E t \in Tasks :
         \/ TaskStart(t)
         \/ TaskCacheLookup(t)
         \/ TaskExtractionStart(t)
         \/ TaskTextReturns(t)
         \/ TaskImageStart(t)
         \/ TaskImageReturns(t)
         \/ TaskVerification(t)
         \/ TaskGeneration(t)
         \/ TaskErrorResponse(t)
         \/ TaskStorageStart(t)
         \/ TaskStorageSet(t)

TaskSpec == Init /\ [][TaskNext]_vars

(***************************************************************************)
(* The in-memory cache on its own: storage/cache.py                        *)
(***************************************************************************)
MemKeys == {"k1", "k2"}
MemValues == {"v1", "v2"}
TTLs == {0, 2}
NeverSet == [none |-> TRUE]

\* an entry that counts as expired from its deadline on
ExpiredAtDeadline(now, expires_at) == now >= expires_at

\* line 25: datetime.now() > cached_item["expires_at"]
Expired(now, expires_at) == now > expires_at

\* Cache.size: len(self._cache)
size(c) == Cardinality({k \in MemKeys : c.entries[k].present})

\* Cache.__init__; lastSet keeps, per key, the value and time of the latest set
\* since the latest clear
Cache_init ==
    /\ mem = NoMem
    /\ \E ttl_seconds \in TTLs :
         mem' = [on |-> TRUE, ttl |-> ttl_seconds, entries |-> [k \in MemKeys |-> NoEntry],
                 now |-> 0, n |-> 0, op |-> "init", key |-> NoneVal, result |-> PyNone,
                 lastSet |-> [k \in MemKeys |-> NeverSet]]
    /\ UNCHANGED <<runVars, unit, tasks>>

\* Cache.get
Cache_get ==
    /\ mem.on /\ mem.n < MaxOps
    /\ \E key \in MemKeys :
         LET cached_item == mem.entries[key] IN
         IF ~cached_item.present
         THEN mem' = [mem EXCEPT !.n = @ + 1, !.op = "get", !.key = key, !.result = PyNone]
         ELSE IF Expired(mem.now, cached_item.expires_at)
         THEN mem' = [mem EXCEPT !.n = @ + 1, !.op = "get", !.key = key, !.result = PyNone,
                                 !.entries[key] = NoEntry]
         ELSE mem' = [mem EXCEPT !.n = @ + 1, !.op = "get", !.key = key,
                                 !.result = Some(cached_item.value)]
    /\ UNCHANGED <<runVars, unit, tasks>>

\* Cache.set
Cache_set ==
    /\ mem.on /\ mem.n < MaxOps
    /\ \E key \in MemKeys, value \in MemValues :
         mem' = [mem EXCEPT !.n = @ + 1, !.op = "set", !.key = key, !.result = PyNone,
                            !.entries[key] = [present |-> TRUE, value |-> value,
                                              expires_at |-> mem.now + mem.ttl],
                            !.lastSet[key] = [none |-> FALSE, value |-> value,
                                              at |-> mem.now]]
    /\ UNCHANGED <<runVars, unit, tasks>>

\* Cache.clear
Cache_clear ==
    /\ mem.on /\ mem.n < MaxOps
    /\ mem' = [mem EXCEPT !.n = @ + 1, !.op = "clear", !.key = NoneVal, !.result = PyNone,
                          !.entries = [k \in MemKeys |-> NoEntry],
                          !.lastSet = [k \in MemKeys |-> NeverSet]]
    /\ UNCHANGED <<runVars, unit, tasks>>

\* time passes between two operations: datetime.now() grows
ClockTick ==
    /\ mem.on /\ mem.now < MaxTime
    /\ mem' = [mem EXCEPT !.now = @ + 1]
    /\ UNCHANGED <<runVars, unit, tasks>>

CacheNext ==
    \/ Cache_init
    \/ Cache_get
    \/ Cache_set
    \/ Cache_clear
    \/ ClockTick

CacheSpec == Init /\ [][CacheNext]_vars

(***************************************************************************)
(* Properties                                                              *)
(***************************************************************************)
StageOrder ==
    <<"Cache Lookup", "Claim Extraction", "Claim Verification", "Response Generation",
      "Cache Storage">>

Returned == pc = "done" /\ response # 0
Result == heap[response]
Count(s, x) == Cardinality({i \in 1..Len(s) : s[i] = x})
HasQuestion(claim, t) == \E i \in 1..Len(claim.questions) : claim.questions[i].question_type = t
LacksWhoOrWhat(claim) == ~HasQuestion(claim, "who") \/ ~HasQuestion(claim, "what")

\* C1: whenever a stage of a run has raised, the run returns a response with verdict
\* ERROR, confidence 0, no evidence, no references, and error_details.failed_stage
\* naming that stage; the failure is held as a value and the run goes on to return
C1_StageFailureYieldsError ==
    failedStage # NoneVal =>
        /\ pc \in {"error", "done"}
        /\ raised.type = "PipelineExecutionError" /\ raised.stage_name = failedStage
        /\ pc = "done" =>
             /\ response # 0
             /\ Result.verdict = "error"
             /\ Result.confidence = 0
             /\ Result.evidence = PyNone
             /\ Result.references = PyNone
             /\ Result.error_details.none = FALSE
             /\ Result.error_details.value.failed_stage = failedStage

C1_Witness ==
    /\ Returned
    /\ failedStage = "Claim Verification"
    /\ Result.error_details.value.failed_stage = "Claim Verification"

\* C2: every run in progress eventually returns a response, as long as each step the
\* run waits for is eventually taken
C2_Total == (pc \notin {"idle", "done"}) ~> Returned

C2_Witness == Returned /\ Len(started) = 4 /\ Len(calls) >= 3

\* C3: the stages of a run start in the fixed order, each at most once and only after
\* all earlier ones have completed; once a stage has failed it is the last one started
\* and the run is in error-response assembly or has returned the error response
C3_StageOrder ==
    /\ Len(started) <= Len(StageOrder)
    /\ \A i \in 1..Len(started) : started[i] = StageOrder[i]
    /\ \A i \in 1..(Len(started) - 1) : Len(completed) >= i /\ completed[i] = started[i]
    /\ Len(completed) <= Len(started)
    /\ failedStage # NoneVal =>
         /\ started # <<>> /\ started[Len(started)] = failedStage
         /\ Len(completed) = Len(started) - 1
         /\ pc \in {"error", "done"}
         /\ pc = "done" => response # 0 /\ Result.verdict = "error"

C3_Witness ==
    /\ Returned
    /\ failedStage = "Response Generation"
    /\ started = SubSeq(StageOrder, 1, 4)
    /\ completed = SubSeq(StageOrder, 1, 3)

\* C4: a run whose Cache Lookup returned a response returns a response with
\* cached = true, having started no other stage and called no collaborator but
\* the cache read
C4_CacheHitSkipsStages ==
    cacheHit =>
        /\ Returned
        /\ Result.cached = TRUE
        /\ started = <<"Cache Lookup">>
        /\ calls = <<"cache.get">>
        /\ queried = <<>>

C4_Witness == cacheHit /\ Returned /\ Result.cached = TRUE /\ Result.verdict = "authentic"

\* C5: a run that missed the cache and in which no collaborator raised returns a
\* response with a verdict other than ERROR, evidence and references lists, no
\* error_details and cached = false
C5_MissYieldsVerdict ==
    (Returned /\ ~cacheHit /\ ~fault) =>
        /\ Result.verdict \in {"authentic", "not_authentic", "mixed", "unclear"}
        /\ Result.evidence.none = FALSE
        /\ Result.references.none = FALSE
        /\ Result.error_details = PyNone
        /\ Result.cached = FALSE

\* C6: a run that missed the cache and in which no collaborator raised has called
\* cache.get exactly once and cache.set exactly once when it returns
C6_GetOnceSetOnce ==
    (Returned /\ ~cacheHit /\ ~fault) =>
        /\ Count(calls, "cache.get") = 1
        /\ Count(calls, "cache.set") = 1

\* C7: once the response of a run for claim text T has been stored, a later run with
\* claim text T whose Cache Lookup neither raises nor finds the entry expired gets a
\* cache hit and returns a response with cached = true
C7_StoredIsFound ==
    ( /\ pc \notin {"idle", "lookup"}
      /\ stored.key = LookupKey(request)
      /\ stored.by < run
      /\ failedStage # "Cache Lookup" ) =>
        /\ cacheHit
        /\ Returned
        /\ Result.cached = TRUE

\* C8: a run that returns a response with a verdict other than ERROR returns the
\* request id the caller supplied, or else the generated id the request now carries
C8_RequestIdEchoed ==
    (Returned /\ Result.verdict # "error") =>
        /\ request.request_id # NoneVal
        /\ Result.request_id = request.request_id
        /\ suppliedId # NoneVal => Result.request_id = suppliedId

\* C9: a claim without a `who` or without a `what` answer has no evidence source
\* queried for it, and once verification has passed it its confidence is 0 and its
\* verification_status is "no_evidence"
C9_NoWhoWhatNoEvidence ==
    extracted.isList =>
        \A i \in 1..Len(extracted.items) :
            LacksWhoOrWhat(extracted.items[i]) =>
                /\ i <= Len(queried) => queried[i] = <<>>
                /\ (i < vidx) =>
                     /\ extracted.items[i].confidence = 0
                     /\ extracted.items[i].metadata.verification_status = "no_evidence"

C9_Witness ==
    /\ pc = "generate"
    /\ extracted.isList
    /\ \E i, j \in 1..Len(extracted.items) :
         /\ LacksWhoOrWhat(extracted.items[i])
         /\ HasQuestion(extracted.items[i], "what")
         /\ extracted.items[i].metadata.verification_status = "no_evidence"
         /\ queried[i] = <<>>
         /\ queried[j] # <<>>

\* the `where` texts of the extracted claims, and those of them that are a registered
\* source key up to case, with the key
WhereTexts == {"Twitter", "news", "SP College", "NEWS"}
NamesSource == {<<"Twitter", "twitter">>, <<"news", "news">>, <<"NEWS", "news">>}

C12_MatchedConfidence ==
    ( /\ unit.fn = "_record_confidence_from_match"
      /\ unit.match_found
      /\ unit.search_results # <<>> ) =>
        LET qs == unit.after.questions
            n == Len(qs)
        IN  /\ n = Len(unit.claim.questions)
            /\ \A i \in 1..n :
                 /\ qs[i].question_type = unit.claim.questions[i].question_type
                 /\ qs[i].question_type \in {"who", "what", "where"} => qs[i].confidence = One
            /\ n > 0 => unit.after.confidence * n = SumConfidence(qs)
            /\ unit.after.metadata.verification_status = "matched"

C12_Witness ==
    /\ unit.fn = "_record_confidence_from_match"
    /\ unit.match_found
    /\ Len(unit.search_results) = 2
    /\ Len(unit.claim.questions) = 2
    /\ unit.claim.questions[1].question_type = "who"
    /\ unit.claim.questions[2].question_type = "when"
    /\ unit.claim.questions[2].confidence = Pct(80)
    /\ unit.after.confidence = Pct(90)

ExtractionReturned == pc = "verify"
IsSentinel(c) == c.confidence = 0 /\ c.metadata.error # Absent /\ c.questions = <<>>
HasText == Truthy(request.claim_text)
HasImage == Truthy(request.image_data)

\* C13: Claim Extraction returns a list with at least one claim; when neither the text
\* path nor the image path yields a claim, a list holding exactly one error sentinel
C13_ExtractionReturnsList ==
    ExtractionReturned =>
        /\ extracted.isList
        /\ Len(extracted.items) >= 1
        /\ ( /\ HasText => outcomes.txt.kind # "claim"
             /\ HasImage => /\ outcomes.io.is_text # "false"
                            /\ outcomes.io.top.kind # "claim"
                            /\ outcomes.io.inside.kind # "claim"
                            /\ outcomes.io.simple.kind # "claim" )
           => Len(extracted.items) = 1 /\ IsSentinel(extracted.items[1])

\* C14: in the list Claim Extraction returns the text-derived claim, if any, is first
\* and no other claim is text-derived; when the top and the inside extraction of a
\* nested image both return a claim, the top claim is immediately followed by the
\* inside claim
C14_ExtractionOrder ==
    (ExtractionReturned /\ extracted.isList) =>
        LET items == extracted.items
            textClaim == HasText /\ outcomes.txt.kind = "claim"
            io == outcomes.io
        IN  /\ textClaim => items[1] = outcomes.txt.claim
            /\ \A i \in 1..Len(items) :
                 (items[i].extracted_from = "text") => (textClaim /\ i = 1)
            /\ ( HasImage /\ io.is_text = "true" /\ io.nested = "true"
                 /\ io.top.kind = "claim" /\ io.inside.kind = "claim" )
               => \E i \in 1..(Len(items) - 1) :
                     /\ items[i] = io.top.claim
                     /\ items[i + 1] = io.inside.claim
                     /\ i + 1 = Len(items)

C14_Witness ==
    /\ ExtractionReturned
    /\ Len(extracted.items) = 3
    /\ extracted.items[1].extracted_from = "text"
    /\ extracted.items[2].claim_text = "outer"
    /\ extracted.items[3].claim_text = "inner"

\* C15: for a request with an image and no text whose image is classified as not a
\* text image, Claim Extraction returns a list of exactly one error sentinel, and of
\* the image collaborators only the text-image detection has been called
C15_NotTextImage ==
    (ExtractionReturned /\ ~HasText /\ HasImage /\ outcomes.io.is_text = "false") =>
        /\ extracted.isList
        /\ Len(extracted.items) = 1
        /\ extracted.items[1].confidence = 0
        /\ extracted.items[1].metadata.error # Absent
        /\ calls = <<"cache.get", "detect_text_image">>

C15_Witness ==
    /\ ExtractionReturned /\ ~HasText /\ HasImage /\ outcomes.io.is_text = "false"
    /\ extracted.items[1].metadata.error = "Image does not contain readable text"

\* C16: when the text extractor raises, Claim Extraction does not fail, no claim of
\* the returned value is text-derived, and the image path - if there is an image -
\* has run and its claims are what the stage returns
C16_TextFailureDropped ==
    (HasText /\ outcomes.txt.kind = "raise" /\ pc # "extract") =>
        LET io == outcomes.io IN
        /\ failedStage # "Claim Extraction"
        /\ Count(completed, "Claim Extraction") = 1
        /\ \A i \in 1..Len(extracted.items) : extracted.items[i].extracted_from # "text"
        /\ HasImage => Count(calls, "detect_text_image") = 1
        /\ (ExtractionReturned /\ HasImage /\ io.is_text = "true" /\ io.nested = "false"
            /\ io.simple.kind = "claim")
           => extracted = ClaimList(<<io.simple.claim>>)
        /\ (ExtractionReturned /\ HasImage /\ io.is_text = "true" /\ io.nested = "true"
            /\ io.top.kind = "claim" /\ io.inside.kind = "claim")
           => extracted = ClaimList(<<io.top.claim, io.inside.claim>>)

C16_Witness ==
    /\ ExtractionReturned /\ HasText /\ outcomes.txt.kind = "raise" /\ HasImage
    /\ Len(extracted.items) = 2
    /\ calls[2] = "text_extractor.extract"

\* C17: when an image collaborator call raises, Claim Extraction does not fail and
\* the returned value holds no claim from the image path
C17_ImageFailureNoClaims ==
    (ExtractionReturned /\ HasImage /\ ImageRaises(outcomes.io)) =>
        /\ failedStage = NoneVal
        /\ \A i \in 1..Len(extracted.items) :
             extracted.items[i].extracted_from # "image"

RECURSIVE Payloads(_), Texts(_), PairsIn(_)
\* the binary payloads held anywhere in a value
Payloads(v) ==
    CASE v.kind = "bytes" -> {v.data}
      [] v.kind = "list"  -> UNION {Payloads(v.items[i]) : i \in 1..Len(v.items)}
      [] v.kind = "dict"  -> UNION {Payloads(v.pairs[i].value) : i \in 1..Len(v.pairs)}
      [] OTHER            -> {}

\* the strings and raw payloads held anywhere in a value
Texts(v) ==
    CASE v.kind = "bytes" -> {v.data}
      [] v.kind \in {"str", "other"} -> {v.text}
      [] v.kind = "list"  -> UNION {Texts(v.items[i]) : i \in 1..Len(v.items)}
      [] v.kind = "dict"  -> UNION {Texts(v.pairs[i].value) : i \in 1..Len(v.pairs)}
      [] OTHER            -> {}

\* the items of a mapping and of every mapping nested in it
PairsIn(v) ==
    CASE v.kind = "dict" ->
            {v.pairs[i] : i \in 1..Len(v.pairs)}
            \cup UNION {PairsIn(v.pairs[i].value) : i \in 1..Len(v.pairs)}
      [] OTHER -> {}

WrappedCallFailed == unit.fn = "log_stage" /\ unit.result.outcome.kind = "raise"
SanitizedParams == PyDict(unit.result.outcome.exc.input_params)
CallArguments == PyList(unit.args \o [i \in 1..Len(unit.kwargs) |-> unit.kwargs[i].value])
SensitiveName(k) ==
    \E w \in {"password", "token", "secret", "image_data", "api_key"} : Contains(Lower(k), w)

\* C18: the parameters carried by the error of a failed stage call hold no binary
\* payload and no string showing the content of one, wherever in the arguments the
\* payload sits; a binary argument appears as a string of the form <bytes: N ...>
C18_NoRawBinary ==
    WrappedCallFailed =>
        /\ Payloads(SanitizedParams) = {}
        /\ \A d \in Payloads(CallArguments) : \A t \in Texts(SanitizedParams) : ~Contains(t, d)
        /\ \A i \in 1..Len(unit.kwargs) :
             unit.kwargs[i].value.kind = "bytes" =>
                \E p \in PairsIn(SanitizedParams) :
                    /\ p.key = unit.kwargs[i].key
                    /\ p.value.kind = "str"
                    /\ SubSeq(p.value.text, 1, 8) = "<bytes: "

\* C19: no parameter with a sensitive name, be it a keyword argument or a key of a
\* mapping nested in an argument, appears under its name with its original value in
\* the parameters carried by the error of a failed stage call
C19_SensitiveRedacted ==
    WrappedCallFailed =>
        \A o \in PairsIn(PyDict(unit.kwargs)) \cup PairsIn(CallArguments) :
            SensitiveName(o.key) =>
                \A p \in PairsIn(SanitizedParams) :
                    p.key = o.key => Str(p.value) # Str(o.value)

\* C20: when the wrapped function returns v, the wrapper has called it exactly once,
\* with the arguments the wrapper was called with, and returns v to its caller
C20_WrapperTransparent ==
    (unit.fn = "log_stage" /\ unit.f.kind = "return") =>
        /\ unit.result.outcome.kind = "return"
        /\ unit.result.outcome.value = unit.f.value
        /\ unit.result.fcalls = <<[args |-> unit.args, kwargs |-> unit.kwargs]>>

C20_Witness ==
    /\ unit.fn = "log_stage" /\ ~unit.is_coroutine
    /\ unit.f = Returns(PyStr("v1"))
    /\ Len(unit.args) = 3 /\ Len(unit.kwargs) = 2
    /\ unit.result.outcome = Returns(PyStr("v1"))

\* position of the first occurrence of an event in a sequence, 0 if it has none
Position(events, e) == FirstIndex([i \in 1..Len(events) |-> events[i] = e])

\* C21: when the wrapped function raises E, the failure is logged and the exception
\* reaching the caller has E's type and E's message
C21_ReraisesSameType ==
    (unit.fn = "log_stage" /\ unit.f.kind = "raise") =>
        /\ unit.result.outcome.kind = "raise"
        /\ unit.result.log[Len(unit.result.log)] = "failed"
        /\ unit.result.outcome.exc.type = unit.f.exc.type
        /\ unit.result.outcome.exc.message = unit.f.exc.message

Named(claim) == {k \in SourceKeys : <<WhereText(claim), k>> \in NamesSource}

\* C29: the default traversal holds no source of negative sequence, and a source of
\* negative sequence is queried for a claim only if the claim's `where` names it
C29_NegativeSkipped ==
    /\ \A j \in 1..Len(source_order) : EXTERNAL_SOURCES[source_order[j]].sequence >= 0
    /\ \A i \in 1..Len(queried) : \A j \in 1..Len(queried[i]) :
         EXTERNAL_SOURCES[queried[i][j]].sequence < 0 =>
            queried[i][j] \in Named(extracted.items[i])

Without(s, k) == SelectSeq(s, LAMBDA x : x # k)

\* the traversal a claim is due by its own `where` answer alone
OwnOrder(claim) ==
    IF Named(claim) = {} THEN DefaultSourceOrder
    ELSE LET k == CHOOSE x \in Named(claim) : TRUE
         IN  <<k>> \o Without(DefaultSourceOrder, k)

Blank(text) == text = NoneVal \/ \A i \in 1..Len(text) : SubSeq(text, i, i) = " "
NoBytes(image) == image = NoneVal \/ image = ""

\* C25: constructing a request fails with a validation error exactly when the text
\* is absent, empty or whitespace-only and the image is absent or empty; a request
\* that failed to construct is none a run can start for, and one with a non-empty
\* image is constructed with that image whatever the text
C25_RequestValidation ==
    unit.fn = "FactCheckRequest" =>
        /\ (unit.result.kind = "raise") = (Blank(unit.claim_text) /\ NoBytes(unit.image_data))
        /\ unit.result.kind = "raise" =>
              /\ unit.result.exc.type = "ValidationError"
              /\ \A r \in Requests :
                    ~(r.claim_text = unit.claim_text /\ r.image_data = unit.image_data)
        /\ ~NoBytes(unit.image_data) =>
              /\ unit.result.kind = "return"
              /\ unit.result.value.image_data = unit.image_data

C25_Witness ==
    /\ unit.fn = "FactCheckRequest"
    /\ unit.claim_text = "   " /\ unit.image_data = NoneVal
    /\ unit.result.kind = "raise"

\* C28: in a response that check_claim built in this run, error_details is present
\* iff the verdict is ERROR, and evidence and references are None iff it is ERROR
C28_ErrorFieldsIffError ==
    (Returned /\ ~cacheHit) =>
        /\ (~Result.error_details.none) = (Result.verdict = "error")
        /\ Result.evidence.none = (Result.verdict = "error")
        /\ Result.references.none = (Result.verdict = "error")

C28_Witness ==
    /\ Returned /\ ~cacheHit
    /\ Result.verdict = "error"
    /\ ~Result.error_details.none
    /\ Result.evidence.none /\ Result.references.none
    /\ failedStage = "Response Generation"

\* C26: get(k) returns the value of the latest set(k, v) iff that set came after the
\* latest clear and the time is not past its set time plus the TTL, and returns None
\* otherwise; a get that finds an expired entry removes it and size() drops by one
C26_CacheGet ==
    [][ (mem.on /\ mem'.n = mem.n + 1 /\ mem'.op = "get") =>
          LET k == mem'.key
              last == mem.lastSet[k]
              live == ~last.none /\ mem.now <= last.at + mem.ttl
          IN  /\ live => mem'.result = Some(last.value)
              /\ ~live => mem'.result = PyNone
              /\ (mem.entries[k].present /\ mem.now > mem.entries[k].expires_at) =>
                    /\ mem'.result = PyNone
                    /\ ~mem'.entries[k].present
                    /\ size(mem') = size(mem) - 1
              /\ ~(mem.entries[k].present /\ mem.now > mem.entries[k].expires_at) =>
                    size(mem') = size(mem)
      ]_vars

C26_Witness ==
    /\ mem.on /\ mem.op = "get" /\ mem.result = PyNone
    /\ ~mem.lastSet[mem.key].none
    /\ mem.now > mem.lastSet[mem.key].at + mem.ttl
    /\ ~mem.entries[mem.key].present
    /\ size(mem) = 1

\* C23: every log event of a check_claim task carries the request id of that task's
\* own request, and never the id of the other task's request when the two differ
C23_RequestIdIsolated ==
    (tasks.on /\ tasks.job = "check_claim") =>
        \A e \in tasks.log :
            /\ e.request_id = tasks.rid[e.task]
            /\ \A u \in Tasks \ {e.task} :
                 (tasks.rid[u] # NoneVal /\ tasks.rid[u] # tasks.rid[e.task]) =>
                    e.request_id # tasks.rid[u]

C23_Witness ==
    /\ tasks.on /\ tasks.job = "check_claim"
    /\ tasks.pc["A"] = "done" /\ tasks.pc["B"] \notin {"new", "done"}
    /\ tasks.rid["A"] = "r1" /\ tasks.rid["B"] = TaskUuid("B")
    /\ \E e \in tasks.log : e.task = "A" /\ e.event = "Pipeline failed"
    /\ \E e \in tasks.log : e.task = "B" /\ e.event = "Cache Lookup started"

\* image processing of a task has not begun while its text extractor is running
ExtractionSequential ==
    tasks.on => \A t \in Tasks : tasks.image[t] # "idle" => tasks.text[t] # "running"

\* C24: for a request with text and image, image processing can start while the text
\* extractor has not returned, and a branch that fails leaves the other one to run
\* to its end
C24_ConcurrentExtraction ==
    (tasks.on /\ tasks.job = "check_claim") =>
        \A t \in Tasks :
            LET both == Truthy(tasks.arg[t].claim_text) /\ Truthy(tasks.arg[t].image_data)
                joined == tasks.pc[t] \in {"verify", "generate", "error", "done"}
            IN  /\ (both /\ tasks.text[t] = "running") => ENABLED TaskImageStart(t)
                /\ (both /\ joined /\ tasks.pc[t] # "done") =>
                      /\ tasks.text[t] \in {"returned", "raised"}
                      /\ tasks.image[t] \in {"returned", "raised"}

VerificationCompleted == \E k \in 1..Len(completed) : completed[k] = "Claim Verification"

C34_NoConfidenceEverywhere ==
    ( /\ unit.fn = "_record_confidence_from_match"
      /\ (~unit.match_found \/ unit.search_results = <<>>) ) =>
        /\ unit.after.confidence = 0
        /\ \A i \in 1..Len(unit.after.questions) : unit.after.questions[i].confidence = 0

C33_HitLeavesStoredCopy ==
    [][ (pc = "lookup" /\ pc' = "done") =>
          \A key \in DOMAIN cache :
             cache[key] # 0 =>
                /\ cache'[key] = cache[key]
                /\ heap'[cache[key]] = heap[cache[key]] ]_vars

\* C35: check_claim never puts a response in the cache: no run calls cache.set, no
\* entry of the cache is the response a run generated, and no entry has verdict ERROR,
\* so no hit returns verdict ERROR
C35_NoErrorResponseCached ==
    /\ \A i \in 1..Len(calls) : calls[i] # "cache.set"
    /\ stored = NoStore
    /\ \A key \in DOMAIN cache :
         cache[key] # 0 =>
            /\ IsResponse(heap[cache[key]]) =>
                  /\ heap[cache[key]].verdict # "error"
                  /\ heap[cache[key]].error_details = PyNone
            /\ (Returned /\ ~cacheHit) => cache[key] # response
    /\ (Returned /\ cacheHit) => Result.verdict # "error"

C35_Witness ==
    /\ Returned
    /\ run = 2
    /\ Result.verdict = "error"
    /\ failedStage = "Response Generation"
    /\ cache[Result.request_id] = 0
    /\ \E key \in DOMAIN cache :
         cache[key] # 0 /\ IsResponse(heap[cache[key]]) /\ heap[cache[key]].cached

\* C31: a run in which an exception was raised outside every stage wrapper returns a
\* response with verdict error whose error_details has failed_stage "Unknown",
\* failed_function "Unknown", no input_parameters and the exception's message
C31_UnwrappedException ==
    /\ (pc = "error" /\ raised.type # "PipelineExecutionError") =>
          ENABLED ErrorResponse
    /\ (Returned /\ raised # NoException /\ raised.type # "PipelineExecutionError") =>
          /\ Result.verdict = "error"
          /\ Result.error_details # PyNone
          /\ Result.error_details.value.failed_stage = "Unknown"
          /\ Result.error_details.value.failed_function = "Unknown"
          /\ Result.error_details.value.input_parameters = <<>>
          /\ Result.error_details.value.error_message = raised.message
          /\ Result.error_details.value.error_type = raised.type

C31_Witness ==
    /\ Returned
    /\ raised.type = "AttributeError"
    /\ completed = <<"Cache Lookup">>
    /\ failedStage = NoneVal
    /\ Result.error_details.value.failed_stage = "Unknown"
    /\ Result.error_details.value.error_message = "'dict' object has no attribute 'cached'"

====
